---- MODULE Spec2Model ----
(***************************************************************************)
(* Model of src/routes/upload/pomf.js: the pomf-compatible multipart       *)
(* upload handler (module.exports), its Dicer event handlers and the       *)
(* batchUpload orchestrator with its retry on key clash.                   *)
(*                                                                         *)
(* A JavaScript string is a sequence of tokens.  A token is one character  *)
(* or a run of characters that no regular expression of the module can     *)
(* split (such as "name=" or "image/png").  null and undefined are the     *)
(* one-token sequences Null and Undef, which no header value contains.     *)
(***************************************************************************)
EXTENDS Integers, Sequences, FiniteSets, TLC

\* ------------------------------------------------------------------------
\* Bounds of the model
\* ------------------------------------------------------------------------
\* config.maxFilesPerUpload and config.maxFilesize (config.json is read at
\* pomf.js:7; the values are deployment settings).
maxFilesPerUpload == 2
maxFilesize == 1
\* Parts one request carries at most: two more than the file limit, so that
\* the limit is exceeded twice.
MaxParts == maxFilesPerUpload + 2
\* Parts whose 'end' is still to come, at most.
MaxOpenParts == 2
\* Store writes issued for one file at most.
MaxWrites == 3
\* Random identifiers util.generateRandomKey() draws from.
NumKeys == 2

\* ------------------------------------------------------------------------
\* JavaScript values
\* ------------------------------------------------------------------------
Null == <<"#null">>
Undef == <<"#undefined">>
Q == "\""

\* String(undefined), as RegExp.prototype.exec coerces its argument.
ToStr(s) ==
  IF s = Undef THEN <<"u", "n", "d", "e", "f", "i", "n", "e", "d">>
  ELSE IF s = Null THEN <<"n", "u", "l", "l">>
  ELSE s

MinOf(S) == CHOOSE x \in S : \A y \in S : x <= y

\* s[a..b], empty when b < a
Slice(s, a, b) == IF b < a THEN <<>> ELSE SubSeq(s, a, b)

\* Length of the longest run of tokens outside stop that starts at s[i].
RunLen(s, i, stop) ==
  LET ends == {j \in i..(Len(s) + 1) : j = Len(s) + 1 \/ s[j] \in stop}
  IN MinOf(ends) - i

NoMatch == [matched |-> FALSE, g1 |-> Undef, g2 |-> Undef]

\* The alternation (?:"([^"]+)"|(U+)) tried at position i of s, where U is
\* any token outside stopBare: the quoted branch first, then the bare one.
QuotedOrBareAt(s, i, stopBare) ==
  LET qn == RunLen(s, i + 1, {Q})
      bn == RunLen(s, i, stopBare)
  IN IF i <= Len(s) /\ s[i] = Q /\ qn >= 1 /\ i + 1 + qn <= Len(s)
     THEN [matched |-> TRUE, g1 |-> Slice(s, i + 1, i + qn), g2 |-> Undef,
           next |-> i + qn + 2]
     ELSE IF i <= Len(s) /\ bn >= 1
     THEN [matched |-> TRUE, g1 |-> Undef, g2 |-> Slice(s, i, i + bn - 1),
           next |-> i + bn]
     ELSE [matched |-> FALSE, g1 |-> Undef, g2 |-> Undef, next |-> i]

\* Tokens whose last character is "e".  (The "name=" inside the token
\* "filename=" follows an "e", so [^e]name= never matches inside it.)
EndsInE == {"e"}

\* /[^e]name=(?:"([^"]+)"|([^;]+))/ : g1 is the quoted name, g2 the bare one
ContentDispositionNameRegex(v) ==
  LET s == ToStr(v)
      hits == {i \in 2..Len(s) :
                 /\ s[i] = "name="
                 /\ s[i - 1] \notin EndsInE
                 /\ QuotedOrBareAt(s, i + 1, {";"}).matched}
  IN IF hits = {} THEN NoMatch
     ELSE LET m == QuotedOrBareAt(s, MinOf(hits) + 1, {";"})
          IN [matched |-> TRUE, g1 |-> m.g1, g2 |-> m.g2]

\* /filename=(?:("([^"]+)"|([^;"]+)))/ : g2 is the quoted filename (the
\* group the handler reads), g1 here holds the bare one (group 3).
ContentDispositionFilenameRegex(v) ==
  LET s == ToStr(v)
      hits == {i \in 1..Len(s) :
                 /\ s[i] = "filename="
                 /\ QuotedOrBareAt(s, i + 1, {";", Q}).matched}
  IN IF hits = {} THEN NoMatch
     ELSE LET m == QuotedOrBareAt(s, MinOf(hits) + 1, {";", Q})
          IN [matched |-> TRUE, g1 |-> m.g2, g2 |-> m.g1]

LowerLetters ==
  {"a", "b", "c", "d", "e", "f", "g", "h", "i", "j", "k", "l", "m",
   "n", "o", "p", "q", "r", "s", "t", "u", "v", "w", "x", "y", "z"}
UpperLetters ==
  {"A", "B", "C", "D", "E", "F", "G", "H", "I", "J", "K", "L", "M",
   "N", "O", "P", "Q", "R", "S", "T", "U", "V", "W", "X", "Y", "Z"}
Digits == {"0", "1", "2", "3", "4", "5", "6", "7", "8", "9"}
\* [a-z0-9_-] under the i flag
ExtChars == LowerLetters \cup UpperLetters \cup Digits \cup {"_", "-"}

\* /^(?:^.*)?\.([a-z0-9_-]+)$/i : g1 is the suffix after the last dot
FilenameRegex(v) ==
  LET s == ToStr(v)
      hits == {i \in 1..(Len(s) - 1) :
                 /\ s[i] = "."
                 /\ \A j \in (i + 1)..Len(s) : s[j] \in ExtChars}
  IN IF hits = {} THEN NoMatch
     ELSE [matched |-> TRUE, g1 |-> Slice(s, MinOf(hits) + 1, Len(s)),
           g2 |-> Undef]

LowerOf(c) ==
  CASE c = "P" -> "p" [] c = "N" -> "n" [] c = "G" -> "g" [] c = "T" -> "t"
    [] c = "X" -> "x" [] c = "A" -> "a" [] c = "B" -> "b"
    [] OTHER -> c
toLowerCase(s) == [i \in 1..Len(s) |-> LowerOf(s[i])]

\* /^multipart\/form-data; boundary=(?:"([^"]+)"|([^;]+))$/
MultipartRegex(v) ==
  LET s == ToStr(v)
      m == QuotedOrBareAt(s, 5, {";"})
  IN IF /\ Len(s) >= 5
        /\ s[1] = "multipart/form-data" /\ s[2] = ";" /\ s[3] = " "
        /\ s[4] = "boundary="
        /\ m.matched /\ m.next = Len(s) + 1
     THEN [matched |-> TRUE, g1 |-> m.g1, g2 |-> m.g2]
     ELSE NoMatch

\* parseInt of a header value: the value of the leading run of digits; NaN
\* without one.  NaN is below every number here: NaN > x is false in
\* JavaScript, and the handler only ever asks parseInt(..) > limit.
NaN == 0 - 1
DigitVal(c) ==
  CASE c = "0" -> 0 [] c = "1" -> 1 [] c = "2" -> 2 [] c = "3" -> 3
    [] c = "4" -> 4 [] c = "5" -> 5 [] c = "6" -> 6 [] c = "7" -> 7
    [] c = "8" -> 8 [] c = "9" -> 9 [] OTHER -> 0
RECURSIVE DigitsValue(_)
DigitsValue(s) ==
  IF s = <<>> THEN 0
  ELSE 10 * DigitsValue(Slice(s, 1, Len(s) - 1)) + DigitVal(s[Len(s)])
parseInt(v) ==
  LET s == ToStr(v)
      n == RunLen(s, 1, {s[k] : k \in 1..Len(s)} \ Digits)
  IN IF n = 0 THEN NaN ELSE DigitsValue(Slice(s, 1, n))

\* ------------------------------------------------------------------------
\* Inputs
\* ------------------------------------------------------------------------
CtQuoted == <<"multipart/form-data", ";", " ", "boundary=", Q, "X", "y", Q>>
CtBare == <<"multipart/form-data", ";", " ", "boundary=", "X", "y">>
CtCharset ==
  <<"multipart/form-data", ";", " ", "boundary=", "X", "y", ";", " ",
    "charset=utf-8">>
CtJson == <<"application/json">>

\* A content-length above the limit for every configuration of the model.
ClHuge == <<"9", "9">>
ClSmall == <<"3">>

\* The request headers the handler is tried on.
Requests ==
  { [cl |-> Undef, ct |-> CtQuoted],
    [cl |-> ClSmall, ct |-> CtBare],
    [cl |-> ClHuge, ct |-> CtQuoted],
    [cl |-> Undef, ct |-> CtCharset],
    [cl |-> <<"x">>, ct |-> CtJson],
    [cl |-> ClHuge, ct |-> CtJson],
    [cl |-> Undef, ct |-> Undef] }

CdFile ==
  <<"form-data", ";", " ", "name=", Q, "files[]", Q, ";", " ",
    "filename=", Q, "a", ".", "P", "N", "G", Q>>
CdNoFilename == <<"form-data", ";", " ", "name=", Q, "files[]", Q>>
CdBareFilename ==
  <<"form-data", ";", " ", "name=", Q, "files[]", Q, ";", " ",
    "filename=", "n", "o", "t", "e">>
CdBareName ==
  <<"form-data", ";", " ", "name=", "files[]", ";", " ",
    "filename=", Q, "b", ".", "t", Q>>
CdAvatar ==
  <<"form-data", ";", " ", "name=", Q, "avatar", Q, ";", " ",
    "filename=", Q, "a", ".", "P", "N", "G", Q>>

\* The header blocks a part may carry: a sequence of <<name, first value>>
\* in the order `for (let h in head)` visits them.
HeadFile == << <<"content-type", <<"image/png">> >>,
               <<"content-disposition", CdFile>> >>
HeadNoFilename == << <<"content-disposition", CdNoFilename>> >>
HeadBareFilename == << <<"content-disposition", CdBareFilename>>,
                       <<"content-type", <<"text/plain">> >> >>
HeadBareName == << <<"content-disposition", CdBareName>> >>
HeadAvatar == << <<"content-disposition", CdAvatar>>,
                 <<"content-type", <<"image/png">> >> >>
Heads == {HeadFile, HeadNoFilename, HeadBareFilename, HeadBareName, HeadAvatar}

\* What a header block is, as the sender wrote it: a quoted files[] field
\* ("valid"), a bare files[] field ("bare"), or another field ("other").
KindOf(head) ==
  IF head = HeadAvatar THEN "other"
  ELSE IF head = HeadBareName THEN "bare"
  ELSE "valid"

\* Chunks a part's 'data' event may deliver.
Chunks == {<<1>>, <<2, 3>>}

Keys == 1..NumKeys

\* What the store rejects a write with.
StoreErrors ==
  { [truthy |-> TRUE, code |-> "23505"],
    [truthy |-> TRUE, code |-> "ECONNRESET"],
    [truthy |-> FALSE, code |-> "#undefined"] }

\* ------------------------------------------------------------------------
\* Helpers of the handlers
\* ------------------------------------------------------------------------
\* JavaScript truthiness of a string-or-null value
Truthy(s) == s \notin {Null, Undef, <<>>}

\* let file = { data: [], ext: null, filename: null, mime: null }
NewFile == [data |-> <<>>, ext |-> Null, filename |-> Null, mime |-> Null]

\* Buffer.concat(list)
RECURSIVE BufferConcat(_)
BufferConcat(list) ==
  IF list = <<>> THEN <<>> ELSE Head(list) \o BufferConcat(Tail(list))

\* Bytes held by a list of chunks
RECURSIVE ChunkBytes(_)
ChunkBytes(list) ==
  IF list = <<>> THEN 0 ELSE Len(Head(list)) + ChunkBytes(Tail(list))

\* crypto.createHash('sha1').update(bytes).digest('hex'): a digest that is
\* a function of the bytes alone and separates the buffers of the model.
RECURSIVE Sha1Hex(_)
Sha1Hex(bytes) ==
  IF bytes = <<>> THEN 1
  ELSE 5 * Sha1Hex(Slice(bytes, 1, Len(bytes) - 1)) + bytes[Len(bytes)]

\* The random identifiers of util.generateRandomKey()
KeyNames == <<"k1", "k2", "k3", "k4", "k5">>
RandomKeys == {KeyNames[i] : i \in Keys}

\* genKey(file), with rnd the value util.generateRandomKey() returned
genKey(file, rnd) ==
  <<rnd>> \o (IF Truthy(file.ext) THEN <<".">> \o file.ext ELSE <<>>)

\* OnHeader with the files[] comparison dropped: any named field passes
RECURSIVE OnHeaderAnyName(_, _, _)
OnHeaderAnyName(file, head, k) ==
  IF k > Len(head) THEN [file |-> file, bad |-> FALSE]
  ELSE
    LET h == head[k][1]
        v == head[k][2]
        name == ContentDispositionNameRegex(v)
        filename == ContentDispositionFilenameRegex(v)
        ext == FilenameRegex(filename.g2)
        f1 == IF h = "content-disposition" /\ filename.matched
              THEN [file EXCEPT !.filename = filename.g2,
                                !.ext = IF ext.matched
                                        THEN toLowerCase(ext.g1) ELSE @]
              ELSE file
        f2 == IF h = "content-type" THEN [f1 EXCEPT !.mime = v] ELSE f1
    IN IF h = "content-disposition" /\ ~name.matched
       THEN [file |-> file, bad |-> TRUE]
       ELSE OnHeaderAnyName(f2, head, k + 1)

\* The body of p.on('header') from entry k of head on: the file as the loop
\* leaves it, and whether the loop returned through the files[] check.
RECURSIVE OnHeader(_, _, _)
OnHeader(file, head, k) ==
  IF k > Len(head) THEN [file |-> file, bad |-> FALSE]
  ELSE
    LET h == head[k][1]
        v == head[k][2]
        name == ContentDispositionNameRegex(v)
        filename == ContentDispositionFilenameRegex(v)
        ext == FilenameRegex(filename.g2)
        f1 == IF h = "content-disposition" /\ filename.matched
              THEN [file EXCEPT !.filename = filename.g2,
                                !.ext = IF ext.matched
                                        THEN toLowerCase(ext.g1) ELSE @]
              ELSE file
        f2 == IF h = "content-type" THEN [f1 EXCEPT !.mime = v] ELSE f1
    IN IF h = "content-disposition"
          /\ (~name.matched \/ name.g1 # <<"files[]">>)
       THEN [file |-> file, bad |-> TRUE]
       ELSE OnHeader(f2, head, k + 1)

\* The JSON bodies the handler answers with
Failure(code, text) ==
  [status |-> code,
   body |-> [success |-> FALSE, errorcode |-> code, description |-> text]]
Success(data) ==
  [status |-> 200, body |-> [success |-> TRUE, files |-> data]]

\* data[0].error
IsError(o) == "error" \in DOMAIN o /\ o.error

\* The argument of sw(..) in createWithKey
SwRequest(file, key) ==
  [key |-> key,
   contentType |-> IF Truthy(file.mime) THEN file.mime
                   ELSE <<"application/octet-stream">>,
   body |-> file.data]

\* SuccessOutcome with the digest taken without update(file.data)
SuccessOutcomeNoUpdate(file, key) ==
  [hash |-> Sha1Hex(<<>>), name |-> file.filename, url |-> key,
   size |-> Len(file.data)]

\* The outcomes push(..) records
SuccessOutcome(file, key) ==
  [hash |-> Sha1Hex(file.data), name |-> file.filename, url |-> key,
   size |-> Len(file.data)]
FailureOutcome(file) ==
  [error |-> TRUE, name |-> file.filename, errorcode |-> 500,
   description |-> "internal server error"]

\* ------------------------------------------------------------------------
\* State
\* ------------------------------------------------------------------------
VARIABLES
  pc,          \* "start", "rejected" (returned before piping), "decoding"
  headers,     \* req.headers
  destroyed,   \* req.destroy() has been called
  responses,   \* the res.end(..) calls of the request, in order
  files,       \* let files = []
  parts,       \* per part: st ("new", "open", "ended"), its file object,
               \* and as history the kind of its header block, whether
               \* it ended with more than maxFilesize bytes (over) and
               \* whether maxFilesPerUpload files were held when it ended
               \* (full)
  derror,      \* Dicer has emitted 'error'
  dfinish,     \* Dicer has emitted 'finish'
  up,          \* batchUpload: per file the createWithKey in progress (st,
               \* key), and as history the keys tried, the store's
               \* latest reply ("none", "ok", "clash", "error"), the
               \* number of its replies and the rank of the last reply
               \* among the files' last replies (0 before it)
  completed,   \* let completed = []
  origin,      \* history: origin[k] is the file completed[k] was pushed for
  resolves,    \* calls of resolve(completed)
  thenRan,     \* the .then continuation of batchUpload(files) has run
  store        \* history: the writes the store accepted

vars ==
  <<pc, headers, destroyed, responses, files, parts, derror,
    dfinish, up, completed, origin, resolves, thenRan, store>>

decoderVars == <<files, parts, derror, dfinish>>
batchVars == <<up, completed, origin, resolves, store>>

\* res._headersSent || res.finished: true once res.end(..) has been called
ResFinished == responses # <<>>

Init ==
  /\ pc = "start"
  /\ headers \in Requests
  /\ destroyed = FALSE
  /\ responses = <<>>
  /\ files = <<>>
  /\ parts = [i \in 1..MaxParts |->
                [st |-> "new", file |-> NewFile, kind |-> "none",
                 over |-> FALSE, full |-> FALSE]]
  /\ derror = FALSE
  /\ dfinish = FALSE
  /\ up = <<>>
  /\ completed = <<>>
  /\ origin = <<>>
  /\ resolves = 0
  /\ thenRan = FALSE
  /\ store = {}

\* Handle without the return at the content-type check: the 400 is sent and
\* the body is decoded all the same
HandleNoReturn ==
  /\ pc = "start"
  /\ LET cl == headers.cl
         contentType == MultipartRegex(headers.ct)
     IN IF Truthy(cl) /\ parseInt(cl) > maxFilesize * maxFilesPerUpload
        THEN /\ responses' = Append(responses,
                               Failure(413, "content-length too large"))
             /\ destroyed' = TRUE
             /\ pc' = "rejected"
        ELSE IF ~contentType.matched
        THEN /\ responses' = Append(responses,
                  Failure(400,
                    "invalid Content-Type header, must be multipart w/ boundary"))
             /\ pc' = "decoding"
             /\ UNCHANGED destroyed
        ELSE /\ pc' = "decoding"
             /\ UNCHANGED <<responses, destroyed>>
  /\ UNCHANGED <<headers, thenRan>>
  /\ UNCHANGED decoderVars
  /\ UNCHANGED batchVars

\* ------------------------------------------------------------------------
\* module.exports = (req, res) => ...   up to req.pipe(d)
\* ------------------------------------------------------------------------
Handle ==
  /\ pc = "start"
  /\ LET cl == headers.cl
         contentType == MultipartRegex(headers.ct)
     IN IF Truthy(cl) /\ parseInt(cl) > maxFilesize * maxFilesPerUpload
        THEN /\ responses' = Append(responses,
                               Failure(413, "content-length too large"))
             /\ destroyed' = TRUE
             /\ pc' = "rejected"
        ELSE IF ~contentType.matched
        THEN /\ responses' = Append(responses,
                  Failure(400,
                    "invalid Content-Type header, must be multipart w/ boundary"))
             /\ pc' = "rejected"
             /\ UNCHANGED destroyed
        ELSE /\ pc' = "decoding"
             /\ UNCHANGED <<responses, destroyed>>
  /\ UNCHANGED <<headers, thenRan>>
  /\ UNCHANGED decoderVars
  /\ UNCHANGED batchVars

\* ------------------------------------------------------------------------
\* Dicer events.  Dicer is fed by req.pipe(d); it emits the headers of the
\* parts in order and lets the parts end in order, and a part's 'data' and
\* 'end' reach the handlers in a later turn than the bytes were parsed in,
\* so the headers of the next part may be seen before a part has ended and
\* events of bytes already parsed still arrive after req.destroy().
\* After 'error' the request is unpiped, so no new part begins; 'error' is
\* emitted once.  'finish' comes when every part that began has ended, and
\* no event follows it.
\* ------------------------------------------------------------------------
Decoding == pc = "decoding" /\ ~dfinish
OpenParts == {i \in 1..MaxParts : parts[i].st = "open"}

\* p.on('header', head => ...)
PartHeader(i) ==
  /\ Decoding
  /\ ~derror
  /\ parts[i].st = "new"
  /\ IF i = 1 THEN TRUE ELSE parts[i - 1].st # "new"
  /\ Cardinality(OpenParts) < MaxOpenParts
  /\ \E head \in Heads :
       LET r == OnHeader(parts[i].file, head, 1)
       IN /\ parts' = [parts EXCEPT ![i] = [st |-> "open", file |-> r.file,
                                             kind |-> KindOf(head),
                                             over |-> FALSE,
                                             full |-> FALSE]]
          /\ IF r.bad
             THEN /\ responses' = Append(responses,
                       Failure(400, "form field name should be files[]"))
                  /\ destroyed' = TRUE
             ELSE UNCHANGED <<responses, destroyed>>
  /\ UNCHANGED <<pc, headers, files, derror, dfinish, thenRan>>
  /\ UNCHANGED batchVars

\* p.on('data', data => ...)
PartData(i) ==
  /\ Decoding
  /\ parts[i].st = "open"
  /\ \E data \in Chunks :
       /\ ChunkBytes(parts[i].file.data) + Len(data) <= maxFilesize + 1
       /\ parts' = [parts EXCEPT ![i].file.data = Append(@, data)]
  /\ UNCHANGED <<pc, headers, destroyed, responses, files, derror, dfinish,
                 thenRan>>
  /\ UNCHANGED batchVars

\* PartEnd with the limit test written files.length > maxFilesPerUpload
PartEndOffByOne(i) ==
  /\ Decoding
  /\ parts[i].st = "open"
  /\ IF i = 1 THEN TRUE ELSE parts[i - 1].st = "ended"
  /\ LET file == [parts[i].file EXCEPT !.data = BufferConcat(@)]
     IN IF Len(files) > maxFilesPerUpload
        THEN /\ responses' = Append(responses,
                               Failure(400, "too many files"))
             /\ UNCHANGED <<files, destroyed>>
        ELSE IF Len(file.data) > maxFilesize
        THEN /\ responses' = Append(responses,
                               Failure(413, "request payload too large"))
             /\ destroyed' = TRUE
             /\ UNCHANGED files
        ELSE /\ files' = Append(files, file)
             /\ UNCHANGED <<responses, destroyed>>
  /\ parts' = [parts EXCEPT
                ![i] = [st |-> "ended", file |-> NewFile, kind |-> @.kind,
                        over |-> ChunkBytes(@.file.data) > maxFilesize,
                        full |-> Len(files) >= maxFilesPerUpload]]
  /\ UNCHANGED <<pc, headers, derror, dfinish, thenRan>>
  /\ UNCHANGED batchVars

\* PartEnd without the return after the 413: the oversize file is answered
\* and pushed all the same
PartEndKeepsOversize(i) ==
  /\ Decoding
  /\ parts[i].st = "open"
  /\ IF i = 1 THEN TRUE ELSE parts[i - 1].st = "ended"
  /\ LET file == [parts[i].file EXCEPT !.data = BufferConcat(@)]
     IN IF Len(files) >= maxFilesPerUpload
        THEN /\ responses' = Append(responses,
                               Failure(400, "too many files"))
             /\ UNCHANGED <<files, destroyed>>
        ELSE IF Len(file.data) > maxFilesize
        THEN /\ responses' = Append(responses,
                               Failure(413, "request payload too large"))
             /\ destroyed' = TRUE
             /\ files' = Append(files, file)
        ELSE /\ files' = Append(files, file)
             /\ UNCHANGED <<responses, destroyed>>
  /\ parts' = [parts EXCEPT
                ![i] = [st |-> "ended", file |-> NewFile, kind |-> @.kind,
                        over |-> ChunkBytes(@.file.data) > maxFilesize,
                        full |-> Len(files) >= maxFilesPerUpload]]
  /\ UNCHANGED <<pc, headers, derror, dfinish, thenRan>>
  /\ UNCHANGED batchVars

\* p.on('end', () => ...)
PartEnd(i) ==
  /\ Decoding
  /\ parts[i].st = "open"
  /\ IF i = 1 THEN TRUE ELSE parts[i - 1].st = "ended"
  /\ LET file == [parts[i].file EXCEPT !.data = BufferConcat(@)]
     IN IF Len(files) >= maxFilesPerUpload
        THEN /\ responses' = Append(responses,
                               Failure(400, "too many files"))
             /\ UNCHANGED <<files, destroyed>>
        ELSE IF Len(file.data) > maxFilesize
        THEN /\ responses' = Append(responses,
                               Failure(413, "request payload too large"))
             /\ destroyed' = TRUE
             /\ UNCHANGED files
        ELSE /\ files' = Append(files, file)
             /\ UNCHANGED <<responses, destroyed>>
  /\ parts' = [parts EXCEPT
                ![i] = [st |-> "ended", file |-> NewFile, kind |-> @.kind,
                        over |-> ChunkBytes(@.file.data) > maxFilesize,
                        full |-> Len(files) >= maxFilesPerUpload]]
  /\ UNCHANGED <<pc, headers, derror, dfinish, thenRan>>
  /\ UNCHANGED batchVars

\* d.on('error', err => ...)
DicerError ==
  /\ Decoding
  /\ ~derror
  /\ derror' = TRUE
  /\ responses' = Append(responses, Failure(500, "internal server error"))
  /\ UNCHANGED <<pc, headers, destroyed, files, parts, dfinish,
                 thenRan>>
  /\ UNCHANGED batchVars

\* DicerFinish without the test of res._headersSent || res.finished
DicerFinishUnguarded ==
  /\ Decoding
  /\ \A i \in 1..MaxParts : parts[i].st # "open"
  /\ dfinish' = TRUE
  /\ IF Len(files) = 0
     THEN /\ responses' = Append(responses,
                            Failure(400, "no input file(s)"))
          /\ UNCHANGED up
     ELSE /\ \E rnd \in [1..Len(files) -> RandomKeys] :
               up' = [i \in 1..Len(files) |->
                        [st |-> "inflight",
                         key |-> genKey(files[i], rnd[i]),
                         tried |-> <<genKey(files[i], rnd[i])>>,
                         reply |-> "none", replies |-> 0,
                         rank |-> 0]]
          /\ UNCHANGED responses
  /\ UNCHANGED <<pc, headers, destroyed, files, parts, derror,
                 thenRan, completed, origin, resolves, store>>

\* DicerFinish without the files.length === 0 branch
DicerFinishNoEmptyCheck ==
  /\ Decoding
  /\ \A i \in 1..MaxParts : parts[i].st # "open"
  /\ dfinish' = TRUE
  /\ IF ResFinished
     THEN UNCHANGED <<responses, up>>
     ELSE /\ \E rnd \in [1..Len(files) -> RandomKeys] :
               up' = [i \in 1..Len(files) |->
                        [st |-> "inflight", key |-> genKey(files[i], rnd[i]),
                         tried |-> <<genKey(files[i], rnd[i])>>,
                         reply |-> "none", replies |-> 0,
                         rank |-> 0]]
          /\ UNCHANGED responses
  /\ UNCHANGED <<pc, headers, destroyed, files, parts, derror,
                 thenRan, completed, origin, resolves, store>>

\* d.on('finish', () => ...), with the synchronous part of batchUpload(files):
\* files.forEach(file => createWithKey(genKey(file)))
DicerFinish ==
  /\ Decoding
  /\ \A i \in 1..MaxParts : parts[i].st # "open"
  /\ dfinish' = TRUE
  /\ IF ResFinished
     THEN UNCHANGED <<responses, up>>
     ELSE IF Len(files) = 0
     THEN /\ responses' = Append(responses,
                            Failure(400, "no input file(s)"))
          /\ UNCHANGED up
     ELSE /\ \E rnd \in [1..Len(files) -> RandomKeys] :
               up' = [i \in 1..Len(files) |->
                        [st |-> "inflight",
                         key |-> genKey(files[i], rnd[i]),
                         tried |-> <<genKey(files[i], rnd[i])>>,
                         reply |-> "none", replies |-> 0,
                         rank |-> 0]]
          /\ UNCHANGED responses
  /\ UNCHANGED <<pc, headers, destroyed, files, parts, derror,
                 thenRan, completed, origin, resolves, store>>

\* ------------------------------------------------------------------------
\* batchUpload
\* ------------------------------------------------------------------------
\* push with the completion test loosened to completed.length <= files.length
pushLoose(data, i) ==
  /\ completed' = Append(completed, data)
  /\ origin' = Append(origin, i)
  /\ resolves' = IF Len(completed) + 1 <= Len(files)
                 THEN resolves + 1 ELSE resolves

\* push with the completion test written against files.length + 1
pushNeverResolves(data, i) ==
  /\ completed' = Append(completed, data)
  /\ origin' = Append(origin, i)
  /\ resolves' = IF Len(completed) + 1 = Len(files) + 1
                 THEN resolves + 1 ELSE resolves

\* push that calls resolve without recording the outcome
pushDropsOutcome(data, i) ==
  /\ completed' = completed
  /\ origin' = origin
  /\ resolves' = resolves + 1

\* push that keeps completed in the files' input order
pushInInputOrder(data, i) ==
  LET n == Cardinality({k \in DOMAIN origin : origin[k] < i})
  IN /\ completed' = SubSeq(completed, 1, n) \o <<data>> \o
                       SubSeq(completed, n + 1, Len(completed))
     /\ origin' = SubSeq(origin, 1, n) \o <<i>> \o
                    SubSeq(origin, n + 1, Len(origin))
     /\ resolves' = IF Len(completed) + 1 = Len(files)
                    THEN resolves + 1 ELSE resolves

\* function push (data), called for file i
push(data, i) ==
  /\ completed' = Append(completed, data)
  /\ origin' = Append(origin, i)
  /\ resolves' = IF Len(completed) + 1 = Len(files)
                 THEN resolves + 1 ELSE resolves

StoredKeys == {w.key : w \in store}

\* The files whose write has had its last reply (accepted, or rejected with
\* another error than a key clash)
Settled == Cardinality({j \in DOMAIN up : up[j].rank > 0})

\* SwResolve reporting the key of the first attempt instead of the key of
\* the attempt that was accepted
SwResolveFirstKey(i) ==
  /\ i \in DOMAIN up
  /\ up[i].st = "inflight"
  /\ up[i].key \notin StoredKeys
  /\ store' = store \cup {SwRequest(files[i], up[i].key)}
  /\ push(SuccessOutcome(files[i], up[i].tried[1]), i)
  /\ up' = [up EXCEPT ![i].st = "done", ![i].reply = "ok",
                       ![i].replies = @ + 1, ![i].rank = Settled + 1]
  /\ UNCHANGED <<pc, headers, destroyed, responses, thenRan>>
  /\ UNCHANGED decoderVars

\* sw(..).then(data => push({hash, name, url, size})): the store accepts the
\* write of file i; it accepts no key twice.
SwResolve(i) ==
  /\ i \in DOMAIN up
  /\ up[i].st = "inflight"
  /\ up[i].key \notin StoredKeys
  /\ store' = store \cup {SwRequest(files[i], up[i].key)}
  /\ push(SuccessOutcome(files[i], up[i].key), i)
  /\ up' = [up EXCEPT ![i].st = "done", ![i].reply = "ok",
                       ![i].replies = @ + 1, ![i].rank = Settled + 1]
  /\ UNCHANGED <<pc, headers, destroyed, responses, thenRan>>
  /\ UNCHANGED decoderVars

\* SwReject without the return after createWithKey: a key clash retries
\* and falls through to the failure push
SwRejectNoReturn(i) ==
  /\ i \in DOMAIN up
  /\ up[i].st = "inflight"
  /\ \E err \in StoreErrors :
       IF err.truthy /\ err.code = "23505"
       THEN /\ Len(up[i].tried) < MaxWrites
            /\ \E rnd \in RandomKeys :
                 up' = [up EXCEPT ![i].key = genKey(files[i], rnd),
                                  ![i].tried =
                                     Append(@, genKey(files[i], rnd)),
                                  ![i].reply = "clash",
                                  ![i].replies = @ + 1]
            /\ push(FailureOutcome(files[i]), i)
       ELSE /\ push(FailureOutcome(files[i]), i)
            /\ up' = [up EXCEPT ![i].st = "done", ![i].reply = "error",
                                 ![i].replies = @ + 1,
                                 ![i].rank = Settled + 1]
  /\ UNCHANGED <<pc, headers, destroyed, responses, thenRan, store>>
  /\ UNCHANGED decoderVars

\* SwReject without the test of err.code: every rejection retries
SwRejectRetryAll(i) ==
  /\ i \in DOMAIN up
  /\ up[i].st = "inflight"
  /\ \E err \in StoreErrors :
       /\ Len(up[i].tried) < MaxWrites
       /\ \E rnd \in RandomKeys :
            up' = [up EXCEPT ![i].key = genKey(files[i], rnd),
                             ![i].tried = Append(@, genKey(files[i], rnd)),
                             ![i].reply =
                                IF err.truthy /\ err.code = "23505"
                                THEN "clash" ELSE "error",
                             ![i].replies = @ + 1]
       /\ UNCHANGED <<completed, origin, resolves>>
  /\ UNCHANGED <<pc, headers, destroyed, responses, thenRan, store>>
  /\ UNCHANGED decoderVars

\* sw(..).catch(err => ...): the store rejects the write of file i
SwReject(i) ==
  /\ i \in DOMAIN up
  /\ up[i].st = "inflight"
  /\ \E err \in StoreErrors :
       IF err.truthy /\ err.code = "23505"
       THEN /\ Len(up[i].tried) < MaxWrites
            /\ \E rnd \in RandomKeys :
                 up' = [up EXCEPT ![i].key = genKey(files[i], rnd),
                                  ![i].tried =
                                     Append(@, genKey(files[i], rnd)),
                                  ![i].reply = "clash",
                                  ![i].replies = @ + 1]
            /\ UNCHANGED <<completed, origin, resolves>>
       ELSE /\ push(FailureOutcome(files[i]), i)
            /\ up' = [up EXCEPT ![i].st = "done", ![i].reply = "error",
                                 ![i].replies = @ + 1,
                                 ![i].rank = Settled + 1]
  /\ UNCHANGED <<pc, headers, destroyed, responses, thenRan, store>>
  /\ UNCHANGED decoderVars

\* BatchThen failing the batch when any outcome is an error
BatchThenAnyError ==
  /\ resolves >= 1
  /\ ~thenRan
  /\ thenRan' = TRUE
  /\ LET data == completed
         bad == {k \in DOMAIN data : IsError(data[k])}
     IN responses' =
          Append(responses,
            IF Len(data) = 0
            THEN Failure(500, "internal server error")
            ELSE IF bad # {}
            THEN Failure(data[MinOf(bad)].errorcode,
                         data[MinOf(bad)].description)
            ELSE Success(data))
  /\ UNCHANGED <<pc, headers, destroyed>>
  /\ UNCHANGED decoderVars
  /\ UNCHANGED batchVars

\* batchUpload(files).then(data => ...), data being the array completed.
\* (reject is never called and the continuation does not throw, so the
\* .catch of the finish handler has no run.)
BatchThen ==
  /\ resolves >= 1
  /\ ~thenRan
  /\ thenRan' = TRUE
  /\ LET data == completed
     IN responses' =
          Append(responses,
            IF Len(data) = 0
            THEN Failure(500, "internal server error")
            ELSE IF Len(data) = 1 /\ IsError(data[1])
            THEN Failure(data[1].errorcode, data[1].description)
            ELSE Success(data))
  /\ UNCHANGED <<pc, headers, destroyed>>
  /\ UNCHANGED decoderVars
  /\ UNCHANGED batchVars

Next ==
  \/ Handle
  \/ \E i \in 1..MaxParts : PartHeader(i)
  \/ \E i \in 1..MaxParts : PartData(i)
  \/ \E i \in 1..MaxParts : PartEnd(i)
  \/ DicerError
  \/ DicerFinish
  \/ \E i \in 1..maxFilesPerUpload : SwResolve(i)
  \/ \E i \in 1..maxFilesPerUpload : SwReject(i)
  \/ BatchThen

Spec == Init /\ [][Next]_vars

\* Scheduling: the store answers every write it was sent, and the
\* continuation of a settled promise is run by the event loop.  The retry
\* branch of SwReject is limited to MaxWrites writes per file, so a file
\* gets finitely many key clashes.
Fairness ==
  /\ \A i \in 1..maxFilesPerUpload : WF_vars(SwResolve(i) \/ SwReject(i))
  /\ WF_vars(BatchThen)

LiveSpec == Init /\ [][Next]_vars /\ Fairness

\* ------------------------------------------------------------------------
\* Properties
\* ------------------------------------------------------------------------
\* The positions of completed that hold an outcome of file i
OutcomesOf(i) == {k \in DOMAIN origin : origin[k] = i}

\* C1: the array batchUpload resolves with holds exactly one outcome for
\* each of the N input files: none is missing, none has two.
BatchResultOnePerFile ==
  resolves >= 1 =>
    /\ Len(completed) = Len(files)
    /\ \A i \in 1..Len(files) : Cardinality(OutcomesOf(i)) = 1

\* Two files resolved in the opposite of their input order, one failed and
\* one stored.
BatchResultWitness ==
  /\ resolves >= 1
  /\ origin = <<2, 1>>
  /\ IsError(completed[1])
  /\ ~IsError(completed[2])

\* C2: resolve is called at most once, only when every file has an outcome,
\* and no outcome is recorded after it.
CompletionOnce ==
  /\ [](/\ resolves <= 1
        /\ (resolves >= 1 => Len(completed) = Len(files)))
  /\ [][resolves >= 1 => completed' = completed]_vars

\* Completion of a batch of two files has been signalled and delivered.
CompletionWitness ==
  /\ resolves = 1
  /\ thenRan
  /\ Len(files) = 2
  /\ Len(completed) = 2

\* C3: a file whose write is accepted after k >= 1 key clashes has exactly
\* one outcome, a success that reports the accepted key; while the file is
\* retrying it has no outcome at all.
CollisionRetriesTransparent ==
  \A i \in DOMAIN up :
    /\ (up[i].st = "inflight" => OutcomesOf(i) = {})
    /\ (up[i].reply = "ok" /\ Len(up[i].tried) >= 2 =>
          /\ Cardinality(OutcomesOf(i)) = 1
          /\ \A k \in OutcomesOf(i) :
               /\ ~IsError(completed[k])
               /\ completed[k].url = up[i].tried[Len(up[i].tried)]
               /\ SwRequest(files[i], completed[k].url) \in store)

\* A file stored at its last permitted attempt, every earlier one a clash,
\* under a key that differs from the first one tried.
CollisionRetriesWitness ==
  \E i \in DOMAIN up :
    /\ up[i].reply = "ok"
    /\ Len(up[i].tried) = MaxWrites
    /\ up[i].tried[1] # up[i].key

\* C4: a file whose write the store rejected with another error than a key
\* clash has exactly one outcome, the 500 failure, and no write is issued
\* for it afterwards.
StoreErrorOneFailure ==
  /\ [](\A i \in DOMAIN up :
          up[i].reply = "error" =>
            /\ up[i].st = "done"
            /\ Cardinality(OutcomesOf(i)) = 1
            /\ \A k \in OutcomesOf(i) :
                 completed[k] =
                   [error |-> TRUE, name |-> files[i].filename,
                    errorcode |-> 500,
                    description |-> "internal server error"])
  /\ [][\A i \in DOMAIN up :
          up[i].reply = "error" => up'[i].tried = up[i].tried]_vars

\* A file failed by a store error after an earlier key clash.
StoreErrorWitness ==
  \E i \in DOMAIN up :
    /\ up[i].reply = "error"
    /\ Len(up[i].tried) = 2

\* The responses of the handlers
BadField == Failure(400, "form field name should be files[]")
TooMany == Failure(400, "too many files")
TooLarge == Failure(413, "request payload too large")
Issued(r) == \E k \in DOMAIN responses : responses[k] = r
NoSuccessIssued == \A k \in DOMAIN responses : ~responses[k].body.success
NothingUploaded == up = <<>> /\ completed = <<>> /\ store = {}

\* C5: res.end is called at most once for a request.
ResponseAtMostOnce == Len(responses) <= 1

\* Parts 1..n have ended and each was a files[] part within maxFilesize.
ValidEnded(n) ==
  \A i \in 1..n :
    parts[i].st = "ended" /\ parts[i].kind = "valid" /\ ~parts[i].over

OtherFieldAmongValid ==
  /\ \E i \in 1..MaxParts : parts[i].kind = "other"
  /\ \A i \in 1..MaxParts :
       parts[i].kind \in {"none", "valid", "other"} /\ ~parts[i].over

\* C7 as claimed: such a request's first response is the bad-field 400,
\* there is no success response and nothing is uploaded.
BadFieldIsTerminalResponse ==
  OtherFieldAmongValid =>
    /\ responses # <<>>
    /\ responses[1] = BadField
    /\ NoSuccessIssued
    /\ NothingUploaded

\* C7 as amended: such a request's first response is a 400: the bad-field
\* response, or 'too many files' when maxFilesPerUpload + 1 valid parts
\* had ended before; there is no success response and nothing is uploaded.
BadFieldFailsRequest ==
  OtherFieldAmongValid =>
    /\ responses # <<>>
    /\ \/ responses[1] = BadField
       \/ responses[1] = TooMany /\ ValidEnded(maxFilesPerUpload + 1)
    /\ NoSuccessIssued
    /\ NothingUploaded

\* A bad part between two valid ones, the decoder finished, the first
\* response the bad-field one.
BadFieldWitness ==
  /\ ValidEnded(1)
  /\ parts[2].st = "ended" /\ parts[2].kind = "other"
  /\ parts[3].st = "ended" /\ parts[3].kind = "valid" /\ ~parts[3].over
  /\ dfinish
  /\ responses[1] = BadField

\* The parts that ended within both limits
AcceptableParts ==
  {i \in 1..MaxParts :
     parts[i].st = "ended" /\ ~parts[i].over /\ ~parts[i].full}
FilesWithinLimits ==
  /\ Len(files) = Cardinality(AcceptableParts)
  /\ \A k \in DOMAIN files : Len(files[k].data) <= maxFilesize

\* C8 as claimed: once a part has ended with more than maxFilesize bytes,
\* the 413 has been issued, the request is destroyed, the part is not in
\* files and nothing is uploaded.
OversizePartAborts ==
  (\E i \in 1..MaxParts : parts[i].st = "ended" /\ parts[i].over)
  => /\ Issued(TooLarge)
     /\ destroyed
     /\ FilesWithinLimits
     /\ NothingUploaded

\* C8 as amended: the same of a part that ended oversize while fewer than
\* maxFilesPerUpload files were held.
OversizePartAbortsBelowLimit ==
  (\E i \in 1..MaxParts :
     parts[i].st = "ended" /\ parts[i].over /\ ~parts[i].full)
  => /\ Issued(TooLarge)
     /\ destroyed
     /\ FilesWithinLimits
     /\ NothingUploaded

\* An oversize valid part after an accepted one, the decoder finished.
OversizeWitness ==
  /\ ValidEnded(1)
  /\ parts[2].st = "ended" /\ parts[2].kind = "valid"
  /\ parts[2].over /\ ~parts[2].full
  /\ Len(files) = 1
  /\ dfinish

\* C9: the continuation answers with a failure exactly when the batch
\* result is a single failure outcome, with that outcome's code and
\* description; otherwise it answers 200 with the whole array, in which
\* every file has its outcome.
BatchInterpretation ==
  thenRan =>
    LET r == responses[Len(responses)]
        single == Len(completed) = 1 /\ IsError(completed[1])
    IN /\ ~r.body.success <=> single
       /\ IF r.body.success
          THEN /\ r.status = 200
               /\ r.body.files = completed
               /\ \A i \in 1..Len(files) : OutcomesOf(i) # {}
          ELSE /\ r.status = completed[1].errorcode
               /\ r.body.errorcode = completed[1].errorcode
               /\ r.body.description = completed[1].description

\* A batch of two files that both failed, answered 200.
BatchInterpretationWitness ==
  /\ thenRan
  /\ Len(completed) = 2
  /\ IsError(completed[1]) /\ IsError(completed[2])
  /\ responses = <<Success(completed)>>

\* A fatal response has been issued: by the pre-parse validation, the
\* files[] check, the file limit, the size limit or the 'error' handler.
FatalIssued ==
  \/ pc = "rejected"
  \/ derror
  \/ Issued(BadField)
  \/ Issued(TooMany)
  \/ Issued(TooLarge)

\* C10: after a fatal response batchUpload is not started and no store
\* write is issued.
AbortedNeverUploads == FatalIssued => NothingUploaded

\* The decoder of an aborted request finished while holding a file.
AbortedWitness ==
  /\ FatalIssued
  /\ dfinish
  /\ Len(files) >= 1

\* ------------------------------------------------------------------------
\* Pre-parse validation
\* ------------------------------------------------------------------------
\* The declared lengths above maxFilesize * maxFilesPerUpload and the
\* declared types that are not multipart/form-data with a boundary, among
\* the request headers tried.
TooLargeLengths ==
  {cl \in {ClHuge, ClSmall} :
     DigitsValue(cl) > maxFilesize * maxFilesPerUpload}
NotMultipart == {CtCharset, CtJson, Undef}
LengthTooLarge == Failure(413, "content-length too large")
BadContentType ==
  Failure(400, "invalid Content-Type header, must be multipart w/ boundary")

\* The request was answered with r alone and nothing of the body was
\* decoded: no part was seen, no file built, the decoder neither finished
\* nor failed, and nothing went to the store.
RejectedUnparsed(r) ==
  /\ pc = "rejected"
  /\ responses = <<r>>
  /\ \A i \in 1..MaxParts : parts[i].st = "new" /\ parts[i].file = NewFile
  /\ files = <<>>
  /\ ~dfinish /\ ~derror
  /\ NothingUploaded /\ ~thenRan

\* C11: once the handler has run, a request with a declared length above
\* maxFilesize * maxFilesPerUpload has exactly the 413 response and a
\* request with a non-multipart content type (and no such length) has
\* exactly the 400 response; in both cases no part is ever decoded, no file
\* is built and no store write is issued, now or later.
PreParseTerminal ==
  pc # "start" =>
    /\ headers.cl \in TooLargeLengths =>
          RejectedUnparsed(LengthTooLarge) /\ destroyed
    /\ headers.cl \notin TooLargeLengths /\ headers.ct \in NotMultipart =>
          RejectedUnparsed(BadContentType)
    /\ pc = "rejected" =>
          headers.cl \in TooLargeLengths \/ headers.ct \in NotMultipart

PreParseWitness ==
  /\ headers.ct \in NotMultipart
  /\ headers.cl \notin TooLargeLengths
  /\ RejectedUnparsed(BadContentType)

\* ------------------------------------------------------------------------
\* Success outcomes against the store
\* ------------------------------------------------------------------------
\* C12: every success outcome describes the write the store accepted for
\* its file: its key is the key of that write (the last one tried, also
\* after key clashes), its hash is the digest of the bytes of that write
\* and its size is their number.
SuccessMatchesAcceptedWrite ==
  \A k \in DOMAIN completed :
    ~IsError(completed[k]) =>
      /\ up[origin[k]].reply = "ok"
      /\ completed[k].url = up[origin[k]].tried[Len(up[origin[k]].tried)]
      /\ \E w \in store :
           /\ w.key = completed[k].url
           /\ w.body = files[origin[k]].data
           /\ completed[k].hash = Sha1Hex(w.body)
           /\ completed[k].size = Len(w.body)
      /\ \A w \in store :
           w.key = completed[k].url =>
             /\ completed[k].hash = Sha1Hex(w.body)
             /\ completed[k].size = Len(w.body)

\* A success outcome for a file with a body, accepted after a key clash.
SuccessMatchesWitness ==
  \E k \in DOMAIN completed :
    /\ ~IsError(completed[k])
    /\ completed[k].size >= 1
    /\ Len(up[origin[k]].tried) >= 2
    /\ \E w \in store : w.key = completed[k].url /\ w.body # <<>>

\* ------------------------------------------------------------------------
\* Keys tried for one file
\* ------------------------------------------------------------------------
\* The keys tried for file i so far, the one in flight included
KeysTried(i) == up[i].tried

\* C13: the keys tried for one file never contain the same key twice.
KeysNeverRepeat ==
  \A i \in DOMAIN up :
    \A a, b \in DOMAIN KeysTried(i) :
      a # b => KeysTried(i)[a] # KeysTried(i)[b]

\* ------------------------------------------------------------------------
\* Requests without files
\* ------------------------------------------------------------------------
NoInput == Failure(400, "no input file(s)")

\* C14: when Dicer finishes with no file in the list and no response
\* issued, the finish handler issues the 400 'no input file(s)' response
\* and does not start batchUpload; that response stays the only one and
\* nothing is ever uploaded for the request.
NoInputFails ==
  /\ [][(~dfinish /\ dfinish' /\ files = <<>> /\ responses = <<>>) =>
          (responses' = <<NoInput>> /\ up' = <<>>)]_vars
  /\ [](dfinish /\ files = <<>> =>
          /\ NothingUploaded /\ ~thenRan
          /\ Issued(NoInput) => responses = <<NoInput>>)

\* Dicer has finished a body without parts and the request was answered
\* with the no-input response.
NoInputWitness ==
  /\ dfinish
  /\ files = <<>>
  /\ \A i \in 1..MaxParts : parts[i].st = "new"
  /\ responses = <<NoInput>>

\* ------------------------------------------------------------------------
\* Decoding after a fatal response
\* ------------------------------------------------------------------------
\* A fatal condition was detected during decoding and answered.
DecodingFatal ==
  \/ derror
  \/ Issued(BadField)
  \/ Issued(TooMany)
  \/ Issued(TooLarge)

\* C15: once a fatal condition of the decoding has been answered, no
\* header, data or end handler runs for any part and the file list is not
\* modified.
FatalStopsDecoding ==
  [][DecodingFatal => (parts' = parts /\ files' = files)]_vars

\* ------------------------------------------------------------------------
\* The writes of one file
\* ------------------------------------------------------------------------
\* The writes issued for file i that the store has not answered yet
InFlight(i) == Len(up[i].tried) - up[i].replies

\* C16: a file has at most one write in flight and none once its outcome
\* is recorded; a further write for a file is issued only in the step in
\* which the store answers its previous write with a key clash, one write
\* at a time, and never after the file's outcome was recorded.
SequentialPerFile ==
  /\ [](\A i \in DOMAIN up :
          /\ InFlight(i) \in {0, 1}
          /\ OutcomesOf(i) # {} => InFlight(i) = 0)
  /\ [][\A i \in DOMAIN up :
          Len(up'[i].tried) > Len(up[i].tried) =>
            /\ Len(up'[i].tried) = Len(up[i].tried) + 1
            /\ InFlight(i) = 1
            /\ up'[i].replies = up[i].replies + 1
            /\ up'[i].reply = "clash"
            /\ OutcomesOf(i) = {}
            /\ completed' = completed]_vars

\* A file on its last permitted write, every earlier one answered with a
\* key clash, and no outcome recorded for it.
SequentialWitness ==
  \E i \in DOMAIN up :
    /\ Len(up[i].tried) = MaxWrites
    /\ up[i].replies = MaxWrites - 1
    /\ up[i].reply = "clash"
    /\ InFlight(i) = 1
    /\ OutcomesOf(i) = {}

\* ------------------------------------------------------------------------
\* Order of the outcomes
\* ------------------------------------------------------------------------
\* C17: the k-th outcome of completed belongs to the file whose write was
\* the k-th to get its last reply (accepted, or rejected with another
\* error than a key clash), whatever the files' input order; a file that
\* is still retrying holds back no other file: every file that got its
\* last reply has its outcome recorded, the retrying one has none.
OutcomesInResolutionOrder ==
  /\ \A k \in DOMAIN origin : up[origin[k]].rank = k
  /\ \A j \in DOMAIN up :
       /\ up[j].rank > 0 => OutcomesOf(j) = {up[j].rank}
       /\ up[j].rank = 0 => OutcomesOf(j) = {} /\ up[j].st = "inflight"

\* The second file's outcome is recorded while the first file is retrying
\* after a key clash, and the first file's outcome lands behind it.
OutOfInputOrderWitness ==
  /\ Len(up) = 2
  /\ origin = <<2, 1>>
  /\ Len(up[1].tried) >= 2
  /\ up[2].rank = 1 /\ up[1].rank = 2

\* ------------------------------------------------------------------------
\* The zero-outcome branch
\* ------------------------------------------------------------------------
\* C18: whenever batchUpload has called resolve, completed holds at least
\* one outcome, and the continuation of the finish handler never runs on
\* an empty array: its data.length === 0 branch is not taken.
ZeroOutcomesUnreachable ==
  /\ [](resolves >= 1 \/ thenRan =>
          Len(completed) >= 1 /\ Len(files) >= 1)
  /\ [][(~thenRan /\ thenRan') => Len(completed) >= 1]_vars

\* The continuation has run on a single failure outcome: the request got
\* a 500 response from the data.length === 1 branch.
ZeroOutcomesWitness ==
  /\ thenRan
  /\ Len(completed) = 1
  /\ IsError(completed[1])
  /\ responses = <<Failure(500, "internal server error")>>

\* ------------------------------------------------------------------------
\* Limits of the file list
\* ------------------------------------------------------------------------
\* C19: files never holds more than maxFilesPerUpload files nor a file of
\* more than maxFilesize bytes; so batchUpload, once started, works on
\* between 1 and maxFilesPerUpload files, and every write it sends to the
\* store has a body within maxFilesize.
FileListBounded ==
  /\ Len(files) <= maxFilesPerUpload
  /\ \A k \in DOMAIN files : Len(files[k].data) <= maxFilesize
  /\ up # <<>> =>
       /\ Len(up) = Len(files)
       /\ Len(files) >= 1
       /\ Len(files) <= maxFilesPerUpload
  /\ \A w \in store : Len(w.body) <= maxFilesize

\* batchUpload works on a full list that holds a file of exactly
\* maxFilesize bytes, and a write for that file was accepted.
FileListBoundedWitness ==
  /\ Len(files) = maxFilesPerUpload
  /\ Len(up) = maxFilesPerUpload
  /\ \E k \in DOMAIN files :
       /\ Len(files[k].data) = maxFilesize
       /\ up[k].reply = "ok"

\* ------------------------------------------------------------------------
\* Termination of the batch
\* ------------------------------------------------------------------------
BatchStarted == up # <<>>

\* C20: once batchUpload has started, with every write answered and
\* finitely many key clashes per file, resolve is eventually called and the
\* continuation eventually issues the request's response; and a failure
\* outcome is recorded only for a file whose write the store rejected with
\* another error than a key clash, never for the number of its retries.
BatchTerminates ==
  /\ BatchStarted ~> (resolves >= 1)
  /\ BatchStarted ~> (thenRan /\ responses # <<>>)
  /\ [](\A k \in DOMAIN completed :
          IsError(completed[k]) => up[origin[k]].reply = "error")

\* Both files were stored at their last permitted write, every earlier one
\* a key clash, and the request got the success response.
BatchTerminatesWitness ==
  /\ Len(up) = maxFilesPerUpload
  /\ \A i \in DOMAIN up :
       up[i].reply = "ok" /\ up[i].replies = MaxWrites
  /\ thenRan
  /\ responses = <<Success(completed)>>

====
